---- MODULE Spec2Model ----
(***************************************************************************)
(* LexicalGem: a Telegram bot that serves rare words.                      *)
(*                                                                         *)
(* State machine of WordService (word list, no-repeat cycle, request       *)
(* statistics), UserService (profiles, history, streak, word of the day),  *)
(* CommandHandler (the nine commands and the unknown-command handler) and  *)
(* BotManager (message event, start-up, reload, stop).                     *)
(*                                                                         *)
(* Time is counted in ticks of half a day; sends are asynchronous: a       *)
(* handler runs up to its await of bot.sendMessage in one step, and the    *)
(* send completes (or fails) in a later step.                              *)
(***************************************************************************)
EXTENDS Integers, Sequences, FiniteSets, TLC

VARIABLES
    \* WordService
    words,            \* this.words: sequence of word objects
    usedWords,        \* this.usedWords: Set of word texts
    wsInitialized,    \* this.isInitialized
    totalRequests,    \* this.stats.totalRequests
    uniqueUsers,      \* this.stats.uniqueUsers
    loadAttempts,     \* this.stats.loadAttempts
    loadPc,           \* position of the loadWords call in flight: "idle" | "init" | "reload"
    \* UserService
    users,            \* this.users: Map userId -> user data
    wordOfTheDay,     \* this.wordOfTheDay (None when null/undefined)
    wordOfTheDayDate, \* this.wordOfTheDayDate (None when null)
    \* BotManager
    phase,            \* "new" | "loading" | "running" | "failed"
    isShuttingDown,   \* this.isShuttingDown
    polling,          \* the bot polls for updates
    totalMessages,    \* this.stats.totalMessages
    errors,           \* this.stats.errors
    \* environment
    now,              \* the process clock, in ticks
    pending,          \* bot.sendMessage calls awaiting their outcome
    \* observations
    lastMessage,      \* the last inbound message (None before the first)
    lastSent,         \* the sends started by the last inbound message
    lastError,        \* the exception the last ended send threw (None: it succeeded)
    ret,              \* the last call of a service operation and its result
    cycle,            \* results of getRandomWord since the last resetCycle
    cycleWords,       \* this.words when the current cycle began
    wotdReturns,      \* date, word and user of every getWordOfTheDay result
    recorded          \* per user, every entry addToHistory added, newest first

vars == <<words, usedWords, wsInitialized, totalRequests, uniqueUsers,
          loadAttempts, loadPc, users, wordOfTheDay, wordOfTheDayDate,
          phase, isShuttingDown, polling, totalMessages, errors,
          now, pending, lastMessage, lastSent, lastError, ret, cycle, cycleWords,
          wotdReturns, recorded>>

wsVars == <<words, usedWords, wsInitialized, loadAttempts, loadPc>>
reqVars == <<totalRequests, uniqueUsers>>
usVars == <<users, wordOfTheDay, wordOfTheDayDate>>
bmVars == <<phase, isShuttingDown, polling, errors>>
obsVars == <<ret, cycle, cycleWords, wotdReturns, recorded>>

-----------------------------------------------------------------------------
\* Bounds of the model

\* /word requests
MaxWordRequests == 4
\* requests while the days pass
MaxDayRequests == 3
\* messages of any text
MaxMessages == 2
\* direct getRandomWord calls since the last reset
MaxCycleCalls == 4
\* words in a user's history when the operations are called directly
MaxUserWords == 2
\* the words recorded for one user repeat with this period
Period == 3
\* clock ticks
MaxTime == 4
\* calls of loadWords (start-up and reloads)
MaxLoads == 2
\* words recorded for one user
MaxRecords == 52
\* the longest words.json array given to validateWordsArray
MaxEntries == 3
\* the words of measured lengths recorded for a user
MaxTierWords == 1
\* the whole days of the longest elapsed time given to getUptime
MaxUptimeDays == 2

\* one day (1000 * 60 * 60 * 24 ms) in clock ticks
MS_PER_DAY == 2
\* history entries kept per user
HISTORY_LIMIT == 50

-----------------------------------------------------------------------------
\* Values

\* null / undefined
None == <<>>
Some(x) == <<x>>

Range(s) == {s[i] : i \in 1..Len(s)}

\* Constants.FALLBACK_WORDS
Serendipity == [word |-> "Serendipity",
                definition |-> "The occurrence of fortunate and unexpected discoveries by chance.",
                emoji |-> "brain"]
Peregrine == [word |-> "Peregrine",
              definition |-> "Uncommon, strange, or wandering.",
              emoji |-> "book"]
Ineffable == [word |-> "Ineffable",
              definition |-> "Too great or beautiful to be expressed in words.",
              emoji |-> "mask"]
FALLBACK_WORDS == <<Serendipity, Peregrine, Ineffable>>

\* entries a words.json may hold
Petrichor == [word |-> "Petrichor",
              definition |-> "The smell of rain on dry earth.",
              emoji |-> "rain"]
PeregrineFalcon == [word |-> "Peregrine",
                    definition |-> "A falcon.",
                    emoji |-> "bird"]
NoDefinition == [word |-> "X", definition |-> "", emoji |-> ""]
BlankWord == [word |-> "  ", definition |-> "Blank.", emoji |-> "star"]

\* what fs.readFile + JSON.parse of words.json can yield: a failure (no
\* file, no JSON), a value that is no array, or an array of entries
Unreadable == [ok |-> FALSE, isArray |-> FALSE, entries |-> <<>>]
NotAnArray == [ok |-> TRUE, isArray |-> FALSE, entries |-> <<>>]
TwoWords == [ok |-> TRUE, isArray |-> TRUE, entries |-> <<Serendipity, Peregrine>>]
SameText == [ok |-> TRUE, isArray |-> TRUE, entries |-> <<Peregrine, PeregrineFalcon>>]
OneBlank == [ok |-> TRUE, isArray |-> TRUE,
             entries |-> <<Petrichor, BlankWord, Ineffable>>]
NoneValid == [ok |-> TRUE, isArray |-> TRUE, entries |-> <<NoDefinition>>]

\* a string of n characters
RECURSIVE Repeat(_)
Repeat(n) ==
    IF n = 0 THEN ""
    ELSE IF n % 2 = 0 THEN LET half == Repeat(n \div 2) IN half \o half
    ELSE "a" \o Repeat(n - 1)

\* a word whose text has length characters and whose definition has
\* definitionLength characters
WordOfLengths(length, definitionLength) ==
    [word |-> Repeat(length), definition |-> Repeat(definitionLength), emoji |-> "star"]

\* words on both sides of every threshold of calculateWordDifficulty
MeasuredWords ==
    {WordOfLengths(length, definitionLength) :
        length \in {6, 7, 10, 11}, definitionLength \in {100, 101, 150, 151}}

WordFiles == {Unreadable, NotAnArray, TwoWords, SameText, OneBlank, NoneValid}

\* every array of up to MaxEntries entries, valid ones and invalid ones, and
\* a value that is no array
ValidateInputs ==
    {[ok |-> TRUE, isArray |-> TRUE, entries |-> entries] :
        entries \in UNION {[1..n -> {Serendipity, Petrichor, NoDefinition, BlankWord}] :
                             n \in 0..MaxEntries}}
    \cup {NotAnArray}

\* msg.from.id of inbound messages; 0 is no valid user id
SenderIds == {0, 1, 2}

\* Constants.COMMANDS
COMMANDS == {"/start", "/word", "/stats", "/help", "/wordoftheday",
             "/history", "/random", "/difficulty", "/share"}

\* msg.text of inbound messages ("" stands for a message without text)
Texts == COMMANDS \cup {"/difficulty hard", "/difficulty EASY", "/words", "/word please",
                        "hello", ""}

\* the commands that hand out words, and /history
WordTexts == {"/word", "/wordoftheday", "/random", "/share", "/history"}

\* values setDifficulty is called with
DifficultyArgs == {"easy", "medium", "hard", "extreme", "Hard", ""}

-----------------------------------------------------------------------------
\* Strings

StartsWith(s, p) == Len(s) >= Len(p) /\ SubSeq(s, 1, Len(p)) = p

Includes(s, p) ==
    \E i \in 1..(Len(s) - Len(p) + 1) : SubSeq(s, i, i + Len(p) - 1) = p

UpperCaseLetters == "ABCDEFGHIJKLMNOPQRSTUVWXYZ"
LowerCaseLetters == "abcdefghijklmnopqrstuvwxyz"

LowerChar(c) ==
    IF \E i \in 1..26 : SubSeq(UpperCaseLetters, i, i) = c
    THEN LET i == CHOOSE j \in 1..26 : SubSeq(UpperCaseLetters, j, j) = c
         IN SubSeq(LowerCaseLetters, i, i)
    ELSE c

RECURSIVE ToLowerCase(_)
ToLowerCase(s) ==
    IF Len(s) = 0 THEN s
    ELSE LowerChar(SubSeq(s, 1, 1)) \o ToLowerCase(SubSeq(s, 2, Len(s)))

RECURSIVE TrimStart(_)
TrimStart(s) ==
    IF Len(s) > 0 /\ SubSeq(s, 1, 1) = " " THEN TrimStart(SubSeq(s, 2, Len(s))) ELSE s

RECURSIVE TrimEnd(_)
TrimEnd(s) ==
    IF Len(s) > 0 /\ SubSeq(s, Len(s), Len(s)) = " "
    THEN TrimEnd(SubSeq(s, 1, Len(s) - 1)) ELSE s

Trim(s) == TrimEnd(TrimStart(s))

-----------------------------------------------------------------------------
\* Validator

isValidWord(word) ==
    /\ Len(Trim(word.word)) > 0
    /\ Len(Trim(word.definition)) > 0
    /\ Len(Trim(word.emoji)) > 0

RECURSIVE FilterValidStopAtInvalid(_)
FilterValidStopAtInvalid(entries) ==
    IF entries = <<>> THEN <<>>
    ELSE IF isValidWord(Head(entries))
         THEN <<Head(entries)>> \o FilterValidStopAtInvalid(Tail(entries))
         ELSE <<>>

RECURSIVE FilterValid(_)
FilterValid(entries) ==
    IF entries = <<>> THEN <<>>
    ELSE IF isValidWord(Head(entries))
         THEN <<Head(entries)>> \o FilterValid(Tail(entries))
         ELSE FilterValid(Tail(entries))

\* the indices (from 0) of the invalid entries, in order
RECURSIVE InvalidIndices(_, _)
InvalidIndices(entries, index) ==
    IF entries = <<>> THEN <<>>
    ELSE IF isValidWord(Head(entries))
         THEN InvalidIndices(Tail(entries), index + 1)
         ELSE <<index>> \o InvalidIndices(Tail(entries), index + 1)

validateWordsArray(file) ==
    IF ~file.isArray
    THEN [valid |-> FALSE, validWords |-> <<>>, errors |-> <<"Words must be an array">>]
    ELSE LET validWords == FilterValid(file.entries)
         IN [valid |-> Len(validWords) > 0,
             validWords |-> validWords,
             errors |-> InvalidIndices(file.entries, 0)]

isValidUserIdAny(userId) == TRUE

isValidUserId(userId) == userId > 0

-----------------------------------------------------------------------------
\* WordService

loadWordsResultEmptyOnError(file) ==
    IF ~file.ok
    THEN [words |-> <<>>, success |-> FALSE]
    ELSE LET validation == validateWordsArray(file)
         IN [words |-> IF Len(validation.validWords) = 0
                       THEN FALLBACK_WORDS
                       ELSE validation.validWords,
             success |-> TRUE]

loadWordsResultNoFallback(file) ==
    IF ~file.ok
    THEN [words |-> FALLBACK_WORDS, success |-> FALSE]
    ELSE [words |-> validateWordsArray(file).validWords, success |-> TRUE]

\* loadWords after the file was read: the new this.words and the return value
loadWordsResult(file) ==
    IF ~file.ok
    THEN [words |-> FALLBACK_WORDS, success |-> FALSE]
    ELSE LET validation == validateWordsArray(file)
         IN [words |-> IF Len(validation.validWords) = 0
                       THEN FALLBACK_WORDS
                       ELSE validation.validWords,
             success |-> TRUE]

isReady == wsInitialized /\ Len(words) > 0

\* the reset at the head of getRandomWord
needsReset(ws, used) == Cardinality(used) >= Len(ws)

\* availableWords without its filter: every word of the list is available
availableWordsUnfiltered(ws, used) == ws

availableWords(ws, used) == SelectSeq(ws, LAMBDA word : word.word \notin used)

\* getRandomWord: every result Math.random can give, with this.usedWords after
\* the call and whether resetCycle ran
getRandomWordOutcomes(ws, used, initialized) ==
    IF ~initialized \/ Len(ws) = 0
    THEN {[result |-> None, usedWords |-> used, reset |-> FALSE]}
    ELSE LET reset == needsReset(ws, used)
             used1 == IF reset THEN {} ELSE used
             available == availableWords(ws, used1)
         IN IF Len(available) = 0
            THEN {[result |-> None, usedWords |-> used1, reset |-> reset]}
            ELSE {[result |-> Some(available[randomIndex]),
                   usedWords |-> used1 \cup {available[randomIndex].word},
                   reset |-> reset] : randomIndex \in 1..Len(available)}

\* NaN, the value of Math.round(0 / 0 * 100): no percentage
NaN == -1

\* Math.round for a non-negative quotient n / d
Round(n, d) == (2 * n + d) \div (2 * d)

\* the divisors of getUptime, in milliseconds
MinuteMs == 1000 * 60
HourMs == 1000 * 60 * 60
DayMs == 1000 * 60 * 60 * 24

\* the elapsed times getUptime is given: every number of days up to
\* MaxUptimeDays with hours, minutes and milliseconds at and next to the ends
\* of their ranges, and the instants stats.startTime can hold
UptimeElapsed ==
    {d * DayMs + h * HourMs + m * MinuteMs + ms :
        d \in 0..MaxUptimeDays, h \in {0, 1, 12, 23}, m \in {0, 1, 59},
        ms \in {0, 1, 59999}}
UptimeStarts == {0, 1500}

\* the template literals of getUptime
formatUptimeDropsZeroHours(diff) ==
    LET days == diff \div DayMs
        hours == (diff % DayMs) \div HourMs
        minutes == (diff % HourMs) \div MinuteMs
    IN IF days > 0 /\ hours > 0
       THEN ToString(days) \o "d " \o ToString(hours) \o "h " \o ToString(minutes) \o "m"
       ELSE IF days > 0 THEN ToString(days) \o "d " \o ToString(minutes) \o "m"
       ELSE IF hours > 0 THEN ToString(hours) \o "h " \o ToString(minutes) \o "m"
       ELSE ToString(minutes) \o "m"

formatUptime(diff) ==
    LET days == diff \div DayMs
        hours == (diff % DayMs) \div HourMs
        minutes == (diff % HourMs) \div MinuteMs
    IN IF days > 0
       THEN ToString(days) \o "d " \o ToString(hours) \o "h " \o ToString(minutes) \o "m"
       ELSE IF hours > 0 THEN ToString(hours) \o "h " \o ToString(minutes) \o "m"
       ELSE ToString(minutes) \o "m"

\* WordService.getUptime(now) with stats.startTime
wordServiceGetUptime(startTime, t) == formatUptime(t - startTime)

\* BotManager.getUptime() at time t with stats.startTime, None before
\* initialize has set it
botManagerGetUptime(startTime, t) ==
    IF startTime = None THEN "0m" ELSE formatUptime(t - startTime[1])

\* getStats (the fields the replies show); 0 / 0 is NaN
getStats(ws, used, requests, unique) ==
    [totalWords |-> Len(ws),
     usedWords |-> Cardinality(used),
     remainingWords |-> Len(ws) - Cardinality(used),
     cycleProgress |-> IF Len(ws) = 0 THEN NaN
                       ELSE Round(Cardinality(used) * 100, Len(ws)),
     totalRequests |-> requests,
     uniqueUsers |-> Cardinality(unique)]

-----------------------------------------------------------------------------
\* UserService

NewUserData(userId) ==
    [id |-> userId,
     history |-> <<>>,
     difficulty |-> "medium",
     stats |-> [totalWords |-> 0, streak |-> 0, lastUsed |-> None]]

getUserDataAlwaysNew(us, userId) ==
    [u \in DOMAIN us \cup {userId} |-> IF u = userId THEN NewUserData(userId) ELSE us[u]]

\* this.users after getUserData(userId)
getUserData(us, userId) ==
    IF userId \in DOMAIN us THEN us ELSE us @@ (userId :> NewUserData(userId))

calculateWordDifficultyByWordOnly(word) ==
    LET length == Len(word.word)
    IN IF length <= 6 THEN "easy"
       ELSE IF length <= 10 THEN "medium"
       ELSE "hard"

calculateWordDifficulty(word) ==
    LET length == Len(word.word)
        definitionLength == Len(word.definition)
    IN IF length <= 6 /\ definitionLength <= 100 THEN "easy"
       ELSE IF length <= 10 /\ definitionLength <= 150 THEN "medium"
       ELSE "hard"

\* updateStreak: the user's stats after it, read at time t
updateStreak(stats, t) ==
    IF stats.lastUsed = None
    THEN [stats EXCEPT !.streak = 1]
    ELSE LET daysDiff == (t - stats.lastUsed[1]) \div MS_PER_DAY
         IN IF daysDiff = 0 THEN stats
            ELSE IF daysDiff = 1 THEN [stats EXCEPT !.streak = @ + 1]
            ELSE [stats EXCEPT !.streak = 1]

pushHistoryKeepOldest(history, entry) ==
    LET h == <<entry>> \o history
    IN IF Len(h) > HISTORY_LIMIT THEN SubSeq(h, 2, HISTORY_LIMIT + 1) ELSE h

\* history after unshift(entry) and the cut to the newest entries
pushHistory(history, entry) ==
    LET h == <<entry>> \o history
    IN IF Len(h) > HISTORY_LIMIT THEN SubSeq(h, 1, HISTORY_LIMIT) ELSE h

statsAfterWordCountsTwice(stats, t) ==
    updateStreak([stats EXCEPT !.totalWords = @ + 2, !.lastUsed = Some(t)], t)

\* the user's stats after "Update stats" and "Update streak" of addToHistory
statsAfterWord(stats, t) ==
    updateStreak([stats EXCEPT !.totalWords = @ + 1, !.lastUsed = Some(t)], t)

\* the entry addToHistory makes of a word at time t
historyEntry(word, t) ==
    [word |-> word.word,
     definition |-> word.definition,
     emoji |-> word.emoji,
     timestamp |-> t,
     difficulty |-> calculateWordDifficulty(word)]

\* this.users after addToHistory(userId, word) at time t; word is None for
\* null / undefined
addToHistory(us, userId, word, t) ==
    IF ~isValidUserId(userId) \/ word = None THEN us
    ELSE [getUserData(us, userId) EXCEPT
              ![userId].history = pushHistory(@, historyEntry(word[1], t)),
              ![userId].stats = statsAfterWord(@, t)]

Min(a, b) == IF a <= b THEN a ELSE b

\* getHistory(userId, limit): this.users after the call and the entries returned
getHistory(us, userId, limit) ==
    IF ~isValidUserId(userId) THEN [users |-> us, result |-> <<>>]
    ELSE LET us1 == getUserData(us, userId)
         IN [users |-> us1,
             result |-> SubSeq(us1[userId].history, 1,
                               Min(limit, Len(us1[userId].history)))]

validDifficulties == {"easy", "medium", "hard"}

setDifficultyUnchecked(us, userId, difficulty) ==
    IF ~isValidUserId(userId) THEN [users |-> us, result |-> FALSE]
    ELSE [users |-> [getUserData(us, userId) EXCEPT ![userId].difficulty = difficulty],
          result |-> TRUE]

\* setDifficulty(userId, difficulty): this.users after the call and the result
setDifficulty(us, userId, difficulty) ==
    IF ~isValidUserId(userId) THEN [users |-> us, result |-> FALSE]
    ELSE IF difficulty \notin validDifficulties THEN [users |-> us, result |-> FALSE]
    ELSE [users |-> [getUserData(us, userId) EXCEPT ![userId].difficulty = difficulty],
          result |-> TRUE]

\* getUserStats(userId): this.users after the call and the result (None for null)
getUserStats(us, userId) ==
    IF ~isValidUserId(userId) THEN [users |-> us, result |-> None]
    ELSE LET us1 == getUserData(us, userId)
         IN [users |-> us1,
             result |-> Some([totalWords |-> us1[userId].stats.totalWords,
                              streak |-> us1[userId].stats.streak,
                              lastUsed |-> us1[userId].stats.lastUsed,
                              difficulty |-> us1[userId].difficulty,
                              historyLength |-> Len(us1[userId].history)])]

\* new Date().toDateString(): the calendar date of time t
toDateString(t) == t \div MS_PER_DAY

isNewDayAlways(wotd, wotdDate, today) == TRUE

\* whether getWordOfTheDay draws a new word
isNewDay(wotd, wotdDate, today) == wotdDate # Some(today) \/ wotd = None

\* getWordOfTheDay(words) at time t: every outcome Math.random can give. With
\* no words, words[randomIndex] is undefined and Logger.info throws on
\* this.wordOfTheDay.word after both fields were assigned.
getWordOfTheDayOutcomes(ws, wotd, wotdDate, t) ==
    LET today == toDateString(t)
    IN IF isNewDay(wotd, wotdDate, today)
       THEN IF Len(ws) = 0
            THEN {[wordOfTheDay |-> None, wordOfTheDayDate |-> Some(today),
                   result |-> None, throws |-> TRUE]}
            ELSE {[wordOfTheDay |-> Some(ws[randomIndex]),
                   wordOfTheDayDate |-> Some(today),
                   result |-> Some(ws[randomIndex]),
                   throws |-> FALSE] : randomIndex \in 1..Len(ws)}
       ELSE {[wordOfTheDay |-> wotd, wordOfTheDayDate |-> wotdDate,
              result |-> wotd, throws |-> FALSE]}

\* UserService.getRandomWord(words): words[randomIndex], undefined with no words
userGetRandomWordOutcomes(ws) ==
    IF Len(ws) = 0 THEN {None} ELSE {Some(ws[randomIndex]) : randomIndex \in 1..Len(ws)}

-----------------------------------------------------------------------------
\* CommandHandler

\* msg.text matches the expression ^command$ registered for the command
RegExpTest(command, text) == text = command

\* the command is one of Constants.COMMANDS with msg.text.startsWith(cmd)
isCommand(text) == \E cmd \in COMMANDS : StartsWith(text, cmd)

\* bot.sendMessage(chat, msg) is called: the send is in flight. origin is the
\* catch clause a failure reaches: "command" (registerCommand), "message"
\* (setupEventHandlers) or "error" (handleError)
Send(chat, msg, origin) ==
    /\ pending' = pending \cup {[chat |-> chat, text |-> msg.text, origin |-> origin]}
    /\ lastSent' = <<msg>>

NoSend == pending' = pending /\ lastSent' = <<>>

\* the early return on an invalid msg.from.id
SkipInvalidUser ==
    /\ NoSend
    /\ UNCHANGED <<wsVars, reqVars, usVars, obsVars>>

\* userService.addToHistory(userId, word) now
record(userId, word) ==
    /\ users' = addToHistory(users, userId, word, now)
    /\ recorded' = IF ~isValidUserId(userId) \/ word = None THEN recorded
                   ELSE LET log == IF userId \in DOMAIN recorded
                                   THEN recorded[userId] ELSE <<>>
                            entry == historyEntry(word[1], now)
                        IN [u \in DOMAIN recorded \cup {userId} |->
                               IF u = userId THEN <<entry>> \o log ELSE recorded[u]]

recordRequestOncePerUser(userId) ==
    IF ~isValidUserId(userId) \/ userId \in uniqueUsers
    THEN UNCHANGED reqVars
    ELSE /\ totalRequests' = totalRequests + 1
         /\ uniqueUsers' = uniqueUsers \cup {userId}

\* WordService.recordRequest(userId)
recordRequest(userId) ==
    IF ~isValidUserId(userId)
    THEN UNCHANGED reqVars
    ELSE /\ totalRequests' = totalRequests + 1
         /\ uniqueUsers' = uniqueUsers \cup {userId}

handleStart(from) ==
    IF ~isValidUserId(from) THEN SkipInvalidUser
    ELSE /\ recordRequest(from)
         /\ Send(from, [text |-> "WELCOME"], "command")
         /\ UNCHANGED <<wsVars, usVars, obsVars>>

handleWordNoReadyCheck(from) ==
    IF ~isValidUserId(from) THEN SkipInvalidUser
    ELSE /\ recordRequest(from)
         /\ IF FALSE
            THEN /\ Send(from, [text |-> "NO_WORDS_AVAILABLE"], "command")
                 /\ UNCHANGED <<wsVars, usVars, obsVars>>
            ELSE \E o \in getRandomWordOutcomes(words, usedWords, TRUE) :
                    /\ usedWords' = o.usedWords
                    /\ cycle' = (IF o.reset THEN <<>> ELSE cycle) \o <<o.result>>
                    /\ cycleWords' = IF o.reset THEN words ELSE cycleWords
                    /\ IF o.result = None
                       THEN UNCHANGED <<users, recorded>>
                       ELSE record(from, o.result)
                    /\ IF o.result = None
                       THEN Send(from, [text |-> "NO_WORDS_AVAILABLE"], "command")
                       ELSE LET stats == getStats(words, usedWords', totalRequests',
                                                  uniqueUsers')
                                userStats == getUserStats(users', from).result[1]
                            IN Send(from,
                                    [text |-> "wordMessage",
                                     word |-> o.result[1],
                                     usedWords |-> stats.usedWords,
                                     totalWords |-> stats.totalWords,
                                     cycleProgress |-> stats.cycleProgress,
                                     streak |-> userStats.streak],
                                    "command")
                    /\ UNCHANGED <<words, wsInitialized, loadAttempts, loadPc,
                                   wordOfTheDay, wordOfTheDayDate, ret, wotdReturns>>

handleWord(from) ==
    IF ~isValidUserId(from) THEN SkipInvalidUser
    ELSE /\ recordRequest(from)
         /\ IF ~isReady
            THEN /\ Send(from, [text |-> "NO_WORDS_AVAILABLE"], "command")
                 /\ UNCHANGED <<wsVars, usVars, obsVars>>
            ELSE \E o \in getRandomWordOutcomes(words, usedWords, wsInitialized) :
                    /\ usedWords' = o.usedWords
                    /\ cycle' = (IF o.reset THEN <<>> ELSE cycle) \o <<o.result>>
                    /\ cycleWords' = IF o.reset THEN words ELSE cycleWords
                    /\ IF o.result = None
                       THEN UNCHANGED <<users, recorded>>
                       ELSE record(from, o.result)
                    /\ IF o.result = None
                       THEN Send(from, [text |-> "NO_WORDS_AVAILABLE"], "command")
                       ELSE LET stats == getStats(words, usedWords', totalRequests',
                                                  uniqueUsers')
                                userStats == getUserStats(users', from).result[1]
                            IN Send(from,
                                    [text |-> "wordMessage",
                                     word |-> o.result[1],
                                     usedWords |-> stats.usedWords,
                                     totalWords |-> stats.totalWords,
                                     cycleProgress |-> stats.cycleProgress,
                                     streak |-> userStats.streak],
                                    "command")
                    /\ UNCHANGED <<words, wsInitialized, loadAttempts, loadPc,
                                   wordOfTheDay, wordOfTheDayDate, ret, wotdReturns>>

handleStatsTouchesProfile(from) ==
    IF ~isValidUserId(from) THEN SkipInvalidUser
    ELSE /\ recordRequest(from)
         /\ Send(from,
                 [text |-> "statsMessage",
                  stats |-> getStats(words, usedWords, totalRequests', uniqueUsers')],
                 "command")
         /\ users' = getUserData(users, from)
         /\ UNCHANGED <<wsVars, wordOfTheDay, wordOfTheDayDate, obsVars>>

handleStats(from) ==
    IF ~isValidUserId(from) THEN SkipInvalidUser
    ELSE /\ recordRequest(from)
         /\ Send(from,
                 [text |-> "statsMessage",
                  stats |-> getStats(words, usedWords, totalRequests', uniqueUsers')],
                 "command")
         /\ UNCHANGED <<wsVars, usVars, obsVars>>

handleHelp(from) ==
    IF ~isValidUserId(from) THEN SkipInvalidUser
    ELSE /\ recordRequest(from)
         /\ Send(from, [text |-> "HELP"], "command")
         /\ UNCHANGED <<wsVars, usVars, obsVars>>

handleWordOfTheDay(from) ==
    IF ~isValidUserId(from) THEN SkipInvalidUser
    ELSE /\ recordRequest(from)
         /\ IF ~isReady
            THEN /\ Send(from, [text |-> "NO_WORDS_AVAILABLE"], "command")
                 /\ UNCHANGED <<wsVars, usVars, obsVars>>
            ELSE \E o \in getWordOfTheDayOutcomes(words, wordOfTheDay,
                                                  wordOfTheDayDate, now) :
                    /\ wordOfTheDay' = o.wordOfTheDay
                    /\ wordOfTheDayDate' = o.wordOfTheDayDate
                    /\ IF o.throws
                       THEN /\ UNCHANGED <<users, recorded, wotdReturns>>
                            /\ Send(from, [text |-> "errorMessage"], "error")
                       ELSE /\ record(from, o.result)
                            /\ wotdReturns' = wotdReturns \cup
                                   {[date |-> toDateString(now),
                                     word |-> o.result[1],
                                     userId |-> from]}
                            /\ Send(from,
                                    [text |-> "wordOfTheDayMessage",
                                     word |-> o.result[1]],
                                    "command")
                    /\ UNCHANGED <<wsVars, ret, cycle, cycleWords>>

handleHistory(from) ==
    IF ~isValidUserId(from) THEN SkipInvalidUser
    ELSE /\ recordRequest(from)
         /\ LET history == getHistory(users, from, 10)
            IN /\ users' = history.users
               /\ IF Len(history.result) = 0
                  THEN Send(from, [text |-> "NO_HISTORY"], "command")
                  ELSE Send(from,
                            [text |-> "historyMessage", entries |-> history.result],
                            "command")
         /\ UNCHANGED <<wsVars, wordOfTheDay, wordOfTheDayDate, obsVars>>

handleRandom(from) ==
    IF ~isValidUserId(from) THEN SkipInvalidUser
    ELSE /\ recordRequest(from)
         /\ IF ~isReady
            THEN /\ Send(from, [text |-> "NO_WORDS_AVAILABLE"], "command")
                 /\ UNCHANGED <<wsVars, usVars, obsVars>>
            ELSE \E randomWord \in userGetRandomWordOutcomes(words) :
                    /\ record(from, randomWord)
                    /\ Send(from,
                            [text |-> "randomMessage", word |-> randomWord[1]],
                            "command")
                    /\ UNCHANGED <<wsVars, wordOfTheDay, wordOfTheDayDate, ret,
                                   cycle, cycleWords, wotdReturns>>

\* the difficulty handleDifficulty reads from msg.text (None for null)
parseDifficulty(msgText) ==
    LET text == ToLowerCase(msgText)
    IN IF Includes(text, "easy") THEN Some("easy")
       ELSE IF Includes(text, "hard") THEN Some("hard")
       ELSE IF Includes(text, "medium") THEN Some("medium")
       ELSE None

handleDifficulty(from, msgText) ==
    IF ~isValidUserId(from) THEN SkipInvalidUser
    ELSE /\ recordRequest(from)
         /\ LET difficulty == parseDifficulty(msgText)
            IN IF difficulty = None
               THEN LET userStats == getUserStats(users, from)
                    IN /\ users' = userStats.users
                       /\ Send(from,
                               [text |-> "difficultyHelpMessage",
                                difficulty |-> userStats.result[1].difficulty],
                               "command")
               ELSE LET success == setDifficulty(users, from, difficulty[1])
                    IN /\ users' = success.users
                       /\ IF success.result
                          THEN Send(from, [text |-> "DIFFICULTY_CHANGED"], "command")
                          ELSE Send(from, [text |-> "INVALID_DIFFICULTY"], "command")
         /\ UNCHANGED <<wsVars, wordOfTheDay, wordOfTheDayDate, obsVars>>

handleShareRecords(from) == handleRandom(from)

handleShare(from) ==
    IF ~isValidUserId(from) THEN SkipInvalidUser
    ELSE /\ recordRequest(from)
         /\ IF ~isReady
            THEN /\ Send(from, [text |-> "NO_WORDS_AVAILABLE"], "command")
                 /\ UNCHANGED <<wsVars, usVars, obsVars>>
            ELSE \E shareWord \in userGetRandomWordOutcomes(words) :
                    /\ Send(from,
                            [text |-> "shareMessage", word |-> shareWord[1]],
                            "command")
                    /\ UNCHANGED <<wsVars, usVars, obsVars>>

handleUnknownCommand(from) ==
    IF ~isValidUserId(from) THEN SkipInvalidUser
    ELSE /\ recordRequest(from)
         /\ Send(from, [text |-> "UNKNOWN_COMMAND"], "message")
         /\ UNCHANGED <<wsVars, usVars, obsVars>>

-----------------------------------------------------------------------------
\* The bot

NoCall ==
    [op |-> "", userId |-> 0, arg |-> None, result |-> None, usersBefore |-> <<>>,
     throws |-> FALSE]

Init ==
    /\ words = <<>>
    /\ usedWords = {}
    /\ wsInitialized = FALSE
    /\ totalRequests = 0
    /\ uniqueUsers = {}
    /\ loadAttempts = 0
    /\ loadPc = "idle"
    /\ users = <<>>
    /\ wordOfTheDay = None
    /\ wordOfTheDayDate = None
    /\ phase = "new"
    /\ isShuttingDown = FALSE
    /\ polling = FALSE
    /\ totalMessages = 0
    /\ errors = 0
    /\ now = 0
    /\ pending = {}
    /\ lastMessage = None
    /\ lastSent = <<>>
    /\ lastError = None
    /\ ret = NoCall
    /\ cycle = <<>>
    /\ cycleWords = <<>>
    /\ wotdReturns = {}
    /\ recorded = <<>>

\* BotManager.initialize: validateConfig fails
ConfigInvalid ==
    /\ phase = "new"
    /\ phase' = "failed"
    /\ UNCHANGED <<wsVars, reqVars, usVars, isShuttingDown, polling, totalMessages,
                   errors, now, pending, lastMessage, lastSent, lastError, obsVars>>

\* BotManager.initialize up to the await of fs.readFile in loadWords
StartInitialize ==
    /\ phase = "new"
    /\ phase' = "loading"
    /\ loadAttempts' = loadAttempts + 1
    /\ loadPc' = "init"
    /\ UNCHANGED <<words, usedWords, wsInitialized, reqVars, usVars, isShuttingDown,
                   polling, totalMessages, errors, now, pending, lastMessage, lastSent, lastError, obsVars>>

LoadDoneAlwaysRuns(file) ==
    /\ loadPc # "idle"
    /\ LET loaded == loadWordsResult(file)
       IN /\ words' = loaded.words
          /\ cycleWords' = IF cycle = <<>> THEN loaded.words ELSE cycleWords
          /\ IF loadPc = "init"
             THEN /\ wsInitialized' = loaded.success
                  /\ phase' = "running"
                  /\ polling' = loaded.success
             ELSE UNCHANGED <<wsInitialized, phase, polling>>
    /\ loadPc' = "idle"
    /\ UNCHANGED <<usedWords, loadAttempts, reqVars, usVars, isShuttingDown,
                   totalMessages, errors, now, pending, lastMessage, lastSent, lastError, ret, cycle,
                   wotdReturns, recorded>>

LoadDonePrunesHistory(file) ==
    /\ loadPc # "idle"
    /\ LET loaded == loadWordsResult(file)
           kept == {w.word : w \in Range(loaded.words)}
       IN /\ words' = loaded.words
          /\ cycleWords' = IF cycle = <<>> THEN loaded.words ELSE cycleWords
          /\ users' = [u \in DOMAIN users |->
                          [users[u] EXCEPT !.history =
                              SelectSeq(@, LAMBDA entry : entry.word \in kept)]]
          /\ IF loadPc = "init"
             THEN /\ wsInitialized' = loaded.success
                  /\ phase' = IF loaded.success THEN "running" ELSE "failed"
                  /\ polling' = loaded.success
             ELSE UNCHANGED <<wsInitialized, phase, polling>>
    /\ loadPc' = "idle"
    /\ UNCHANGED <<usedWords, loadAttempts, reqVars, wordOfTheDay, wordOfTheDayDate,
                   isShuttingDown, totalMessages, errors, now, pending, lastMessage,
                   lastSent, lastError, ret, cycle, wotdReturns, recorded>>

\* loadWords from the end of fs.readFile. At start-up WordService.initialize
\* and BotManager.initialize go on: the bot is created, polls and has its
\* handlers, or initializeServices throws.
LoadDone(file) ==
    /\ loadPc # "idle"
    /\ LET loaded == loadWordsResult(file)
       IN /\ words' = loaded.words
          /\ cycleWords' = IF cycle = <<>> THEN loaded.words ELSE cycleWords
          /\ IF loadPc = "init"
             THEN /\ wsInitialized' = loaded.success
                  /\ phase' = IF loaded.success THEN "running" ELSE "failed"
                  /\ polling' = loaded.success
             ELSE UNCHANGED <<wsInitialized, phase, polling>>
    /\ loadPc' = "idle"
    /\ UNCHANGED <<usedWords, loadAttempts, reqVars, usVars, isShuttingDown,
                   totalMessages, errors, now, pending, lastMessage, lastSent, lastError, ret, cycle,
                   wotdReturns, recorded>>

\* resetCycle()
ResetCycle ==
    /\ phase = "running"
    /\ usedWords' = {}
    /\ cycle' = <<>>
    /\ cycleWords' = words
    /\ UNCHANGED <<words, wsInitialized, loadAttempts, loadPc, reqVars, usVars,
                   bmVars, totalMessages, now, pending, lastMessage, lastSent, lastError, ret, wotdReturns,
                   recorded>>

\* BotManager.reloadWords -> WordService.reloadWords up to the await of
\* fs.readFile in loadWords
ReloadWords ==
    /\ phase = "running"
    /\ loadPc = "idle"
    /\ loadAttempts < MaxLoads
    /\ usedWords' = {}
    /\ cycle' = <<>>
    /\ cycleWords' = words
    /\ loadAttempts' = loadAttempts + 1
    /\ loadPc' = "reload"
    /\ UNCHANGED <<words, wsInitialized, reqVars, usVars, bmVars, totalMessages,
                   now, pending, lastMessage, lastSent, lastError, ret, wotdReturns, recorded>>

\* time passes
Tick ==
    /\ now < MaxTime
    /\ now' = now + 1
    /\ UNCHANGED <<wsVars, reqVars, usVars, bmVars, totalMessages, pending,
                   lastMessage, lastSent, lastError, obsVars>>

\* the handler registered for a command
handler(command, from, text) ==
    IF command = "/start" THEN handleStart(from)
    ELSE IF command = "/word" THEN handleWord(from)
    ELSE IF command = "/stats" THEN handleStats(from)
    ELSE IF command = "/help" THEN handleHelp(from)
    ELSE IF command = "/wordoftheday" THEN handleWordOfTheDay(from)
    ELSE IF command = "/history" THEN handleHistory(from)
    ELSE IF command = "/random" THEN handleRandom(from)
    ELSE IF command = "/difficulty" THEN handleDifficulty(from, text)
    ELSE handleShare(from)

\* the handler of a command is called with a message of the sender
CallHandler(command, from) ==
    /\ handler(command, from, command)
    /\ lastMessage' = Some([from |-> from, text |-> command])
    /\ UNCHANGED <<bmVars, totalMessages, now, lastError>>

\* BotManager.handleMessage goes past its first return
isHandled(text) == text # "" /\ ~isShuttingDown

\* the bot receives a message: the 'message' event (BotManager.handleMessage)
\* and the onText callback of the command whose expression matches, each up
\* to its first await. A text that matches an expression starts with that
\* command, so at most one of the two runs a handler.
OnMessage(from, text) ==
    /\ phase = "running"
    /\ polling
    /\ lastMessage' = Some([from |-> from, text |-> text])
    /\ totalMessages' = IF isHandled(text) THEN totalMessages + 1 ELSE totalMessages
    /\ IF isHandled(text) /\ ~isCommand(text)
       THEN handleUnknownCommand(from)
       ELSE IF \E command \in COMMANDS : RegExpTest(command, text)
            THEN handler(CHOOSE command \in COMMANDS : RegExpTest(command, text),
                         from, text)
            ELSE /\ NoSend
                 /\ UNCHANGED <<wsVars, reqVars, usVars, obsVars>>
    /\ UNCHANGED <<bmVars, now, lastError>>

SendDoneThenRecords(p, ok) ==
    /\ p \in pending
    /\ pending' = (pending \ {p}) \cup
                  (IF ~ok /\ p.origin = "command"
                   THEN {[chat |-> p.chat, text |-> "errorMessage", origin |-> "error"]}
                   ELSE {})
    /\ errors' = IF ~ok /\ p.origin = "message" THEN errors + 1 ELSE errors
    /\ lastError' = IF ok THEN None ELSE Some([chat |-> p.chat, origin |-> p.origin])
    /\ recordRequest(p.chat)
    /\ UNCHANGED <<wsVars, usVars, phase, isShuttingDown, polling,
                   totalMessages, now, lastMessage, lastSent, obsVars>>

SendDoneRollsBack(p, ok) ==
    /\ p \in pending
    /\ pending' = (pending \ {p}) \cup
                  (IF ~ok /\ p.origin = "command"
                   THEN {[chat |-> p.chat, text |-> "errorMessage", origin |-> "error"]}
                   ELSE {})
    /\ errors' = IF ~ok /\ p.origin = "message" THEN errors + 1 ELSE errors
    /\ lastError' = IF ok THEN None ELSE Some([chat |-> p.chat, origin |-> p.origin])
    /\ usedWords' = IF ~ok /\ p.text = "wordMessage" THEN {} ELSE usedWords
    /\ UNCHANGED <<words, wsInitialized, loadAttempts, loadPc, reqVars, usVars, phase, isShuttingDown, polling,
                   totalMessages, now, lastMessage, lastSent, obsVars>>

\* a send ends. A failure is thrown into the handler that awaits it: a
\* command's handler passes it to handleError, which sends the error reply;
\* the 'message' callback counts it; handleError swallows it.
SendDone(p, ok) ==
    /\ p \in pending
    /\ pending' = (pending \ {p}) \cup
                  (IF ~ok /\ p.origin = "command"
                   THEN {[chat |-> p.chat, text |-> "errorMessage", origin |-> "error"]}
                   ELSE {})
    /\ errors' = IF ~ok /\ p.origin = "message" THEN errors + 1 ELSE errors
    /\ lastError' = IF ok THEN None ELSE Some([chat |-> p.chat, origin |-> p.origin])
    /\ UNCHANGED <<wsVars, reqVars, usVars, phase, isShuttingDown, polling,
                   totalMessages, now, lastMessage, lastSent, obsVars>>

\* both getUptime are called at the same instant; the bot manager's
\* startTime is the word service's or is not set
CallGetUptime(startTime, bmStartTime, t) ==
    /\ ret' = [op |-> "getUptime", userId |-> 0,
               arg |-> Some([startTime |-> startTime, bmStartTime |-> bmStartTime,
                             now |-> t]),
               result |-> Some([wordService |-> wordServiceGetUptime(startTime, t),
                                botManager |-> botManagerGetUptime(bmStartTime, t)]),
               usersBefore |-> users, throws |-> FALSE]
    /\ UNCHANGED <<wsVars, reqVars, usVars, bmVars, totalMessages, now, pending,
                   lastMessage, lastSent, lastError, cycle, cycleWords, wotdReturns,
                   recorded>>

\* BotManager.start() is called (arg: the phase it is called in)
CallStart ==
    /\ ret' = [op |-> "start", userId |-> 0, arg |-> Some(phase),
               result |-> Some(phase = "running"), usersBefore |-> users,
               throws |-> FALSE]
    /\ UNCHANGED <<wsVars, reqVars, usVars, bmVars, totalMessages, now, pending,
                   lastMessage, lastSent, lastError, cycle, cycleWords, wotdReturns,
                   recorded>>

\* BotManager.stop up to the await of bot.stopPolling
Stop ==
    /\ phase = "running"
    /\ ~isShuttingDown
    /\ isShuttingDown' = TRUE
    /\ UNCHANGED <<wsVars, reqVars, usVars, phase, polling, errors, totalMessages,
                   now, pending, lastMessage, lastSent, lastError, obsVars>>

\* bot.stopPolling ends
StopPollingDone ==
    /\ isShuttingDown
    /\ polling
    /\ polling' = FALSE
    /\ UNCHANGED <<wsVars, reqVars, usVars, phase, isShuttingDown, errors,
                   totalMessages, now, pending, lastMessage, lastSent, lastError, obsVars>>

\* everything but this.users, the call and the log of recorded words
callFrame == <<wsVars, reqVars, wordOfTheDay, wordOfTheDayDate, bmVars,
               totalMessages, now, pending, lastMessage, lastSent, lastError, cycle,
               cycleWords, wotdReturns>>

\* userService.setDifficulty(userId, difficulty) is called
CallSetDifficulty(userId, difficulty) ==
    /\ phase = "running"
    /\ LET call == setDifficulty(users, userId, difficulty)
       IN /\ users' = call.users
          /\ ret' = [op |-> "setDifficulty", userId |-> userId,
                     arg |-> Some(difficulty), result |-> Some(call.result),
                     usersBefore |-> users, throws |-> FALSE]
    /\ UNCHANGED <<callFrame, recorded>>

\* userService.addToHistory(userId, word) is called
CallAddToHistory(userId, word) ==
    /\ phase = "running"
    /\ record(userId, word)
    /\ ret' = [op |-> "addToHistory", userId |-> userId, arg |-> word,
               result |-> None, usersBefore |-> users, throws |-> FALSE]
    /\ UNCHANGED callFrame

\* userService.getHistory(userId, limit) is called
CallGetHistory(userId, limit) ==
    /\ phase = "running"
    /\ LET call == getHistory(users, userId, limit)
       IN /\ users' = call.users
          /\ ret' = [op |-> "getHistory", userId |-> userId,
                     arg |-> Some(limit), result |-> Some(call.result),
                     usersBefore |-> users, throws |-> FALSE]
    /\ UNCHANGED <<callFrame, recorded>>

\* userService.getUserData(userId) is called
CallGetUserData(userId) ==
    /\ phase = "running"
    /\ users' = getUserData(users, userId)
    /\ ret' = [op |-> "getUserData", userId |-> userId, arg |-> None,
               result |-> Some(users'[userId]), usersBefore |-> users,
               throws |-> FALSE]
    /\ UNCHANGED <<callFrame, recorded>>

\* userService.clearUserData(userId) is called
CallClearUserData(userId) ==
    /\ phase = "running"
    /\ users' = [u \in DOMAIN users \ {userId} |-> users[u]]
    /\ recorded' = [u \in DOMAIN recorded \ {userId} |-> recorded[u]]
    /\ ret' = [op |-> "clearUserData", userId |-> userId, arg |-> None,
               result |-> None, usersBefore |-> users, throws |-> FALSE]
    /\ UNCHANGED callFrame

\* userService.getWordOfTheDay(ws) is called
CallGetWordOfTheDay(ws) ==
    /\ \E o \in getWordOfTheDayOutcomes(ws, wordOfTheDay, wordOfTheDayDate, now) :
          /\ wordOfTheDay' = o.wordOfTheDay
          /\ wordOfTheDayDate' = o.wordOfTheDayDate
          /\ wotdReturns' = IF o.throws THEN wotdReturns
                            ELSE wotdReturns \cup {[date |-> toDateString(now),
                                                    word |-> o.result[1],
                                                    userId |-> 0]}
          /\ ret' = [op |-> "getWordOfTheDay", userId |-> 0, arg |-> Some(ws),
                     result |-> o.result, usersBefore |-> users,
                     throws |-> o.throws]
    /\ UNCHANGED <<wsVars, reqVars, users, bmVars, totalMessages, now, pending,
                   lastMessage, lastSent, lastError, cycle, cycleWords, recorded>>

\* userService.getRandomWord(ws) is called
CallUserGetRandomWord(ws) ==
    /\ \E result \in userGetRandomWordOutcomes(ws) :
          ret' = [op |-> "UserService.getRandomWord", userId |-> 0,
                  arg |-> Some(ws), result |-> result, usersBefore |-> users,
                  throws |-> FALSE]
    /\ UNCHANGED <<callFrame, users, recorded>>

\* everything but the no-repeat cycle and the call
serviceFrame == <<words, wsInitialized, loadAttempts, loadPc, reqVars, usVars,
                  bmVars, totalMessages, now, pending, lastMessage, lastSent,
                  lastError, wotdReturns, recorded>>

\* Validator.validateWordsArray(words) is called
CallValidateWordsArray(file) ==
    /\ ret' = [op |-> "validateWordsArray", userId |-> 0, arg |-> Some(file),
               result |-> Some(validateWordsArray(file)),
               usersBefore |-> users, throws |-> FALSE]
    /\ UNCHANGED <<serviceFrame, usedWords, cycle, cycleWords>>

\* wordService.getStats() is called
CallGetStats ==
    /\ ret' = [op |-> "getStats", userId |-> 0, arg |-> None,
               result |-> Some(getStats(words, usedWords, totalRequests, uniqueUsers)),
               usersBefore |-> users, throws |-> FALSE]
    /\ UNCHANGED <<serviceFrame, usedWords, cycle, cycleWords>>

CallResetCycleKeepsUsed ==
    /\ ret' = [op |-> "resetCycle", userId |-> 0, arg |-> Some(usedWords),
               result |-> None, usersBefore |-> users, throws |-> FALSE]
    /\ UNCHANGED <<serviceFrame, usedWords, cycle, cycleWords>>

\* wordService.resetCycle() is called (arg: the words in use before it)
CallResetCycle ==
    /\ usedWords' = {}
    /\ cycle' = <<>>
    /\ cycleWords' = words
    /\ ret' = [op |-> "resetCycle", userId |-> 0, arg |-> Some(usedWords),
               result |-> None, usersBefore |-> users, throws |-> FALSE]
    /\ UNCHANGED serviceFrame

\* wordService.getRandomWord() is called
CallGetRandomWord ==
    /\ \E o \in getRandomWordOutcomes(words, usedWords, wsInitialized) :
          /\ usedWords' = o.usedWords
          /\ cycle' = (IF o.reset THEN <<>> ELSE cycle) \o <<o.result>>
          /\ cycleWords' = IF o.reset THEN words ELSE cycleWords
          /\ ret' = [op |-> "getRandomWord", userId |-> 0, arg |-> None,
                     result |-> o.result, usersBefore |-> users, throws |-> FALSE]
    /\ UNCHANGED serviceFrame

\* The bot with all its inputs
Next ==
    \/ ConfigInvalid
    \/ StartInitialize
    \/ \E file \in WordFiles : LoadDone(file)
    \/ ResetCycle
    \/ ReloadWords
    \/ Tick
    \/ \E from \in SenderIds, text \in Texts : OnMessage(from, text)
    \/ \E p \in pending, ok \in BOOLEAN : SendDone(p, ok)
    \/ Stop
    \/ StopPollingDone

Spec == Init /\ [][Next]_vars

\* /word requests of two users, with every words.json, resets and reloads
NextWords ==
    \/ StartInitialize
    \/ \E file \in WordFiles : LoadDone(file)
    \/ ResetCycle
    \/ ReloadWords
    \/ /\ totalRequests < MaxWordRequests
       /\ \E from \in {1, 2} : OnMessage(from, "/word")

SpecWords == Init /\ [][NextWords]_vars

\* requests for words of two users while the days pass
NextDays ==
    \/ StartInitialize
    \/ LoadDone(TwoWords)
    \/ Tick
    \/ /\ totalRequests < MaxDayRequests
       /\ \E from \in {1, 2}, text \in WordTexts : OnMessage(from, text)

SpecDays == Init /\ [][NextDays]_vars

\* messages of every text from every sender, their sends, and the shutdown
NextDispatch ==
    \/ StartInitialize
    \/ LoadDone(TwoWords)
    \/ /\ totalMessages < MaxMessages
       /\ totalRequests < MaxMessages
       /\ \E from \in SenderIds, text \in Texts : OnMessage(from, text)
    \/ \E p \in pending, ok \in BOOLEAN : SendDone(p, ok)
    \/ Stop
    \/ StopPollingDone

SpecDispatch == Init /\ [][NextDispatch]_vars

\* the load of any array, then one call of validateWordsArray on any array
NextValidate ==
    \/ StartInitialize
    \/ \E file \in ValidateInputs : LoadDone(file)
    \/ /\ ret = NoCall
       /\ loadAttempts > 0
       /\ loadPc = "idle"
       /\ \E file \in ValidateInputs : CallValidateWordsArray(file)

SpecValidate == Init /\ [][NextValidate]_vars

\* /wordoftheday requests of two users while the days pass and the word list
\* is reloaded
NextReloadDay ==
    \/ StartInitialize
    \/ \E file \in {TwoWords, OneBlank} : LoadDone(file)
    \/ ReloadWords
    \/ Tick
    \/ /\ totalRequests < MaxDayRequests
       /\ \E from \in {1, 2} : OnMessage(from, "/wordoftheday")

SpecReloadDay == Init /\ [][NextReloadDay]_vars

\* the life of the bot manager: initialize with any configuration and any
\* words.json, start, requests, reloads, stop
NextLifecycle ==
    \/ ConfigInvalid
    \/ StartInitialize
    \/ \E file \in WordFiles : LoadDone(file)
    \/ CallStart
    \/ ReloadWords
    \/ /\ totalRequests < MaxMessages
       /\ OnMessage(1, "/word")
    \/ Stop
    \/ StopPollingDone

SpecLifecycle == Init /\ [][NextLifecycle]_vars

\* getUptime of both classes on every elapsed time
NextUptime ==
    \E startTime \in UptimeStarts, elapsed \in UptimeElapsed :
        \E bmStartTime \in {None, Some(startTime)} :
            CallGetUptime(startTime, bmStartTime, startTime + elapsed)

SpecUptime == Init /\ [][NextUptime]_vars

\* /word requests of two users in any order, on every words.json, with
\* nothing else happening
NextInterleave ==
    \/ StartInitialize
    \/ \E file \in WordFiles : LoadDone(file)
    \/ /\ totalRequests < MaxWordRequests
       /\ \E from \in {1, 2} : OnMessage(from, "/word")

SpecInterleave == Init /\ [][NextInterleave]_vars

\* the commands and a text that is no command from every sender, between
\* cycle resets and reloads of the word list
NextRequests ==
    \/ StartInitialize
    \/ \E file \in {TwoWords, Unreadable} : LoadDone(file)
    \/ /\ totalMessages < MaxMessages
       /\ totalRequests < MaxMessages
       /\ \E from \in SenderIds, text \in COMMANDS \cup {"hello"} : OnMessage(from, text)
    \/ ResetCycle
    \/ ReloadWords

SpecRequests == Init /\ [][NextRequests]_vars

\* the handlers called on a word service in any state: not loaded, loaded
\* without being initialized, ready
NextHandlers ==
    \/ StartInitialize
    \/ \E file \in WordFiles : LoadDone(file)
    \/ /\ totalRequests < MaxMessages
       /\ \E from \in {0, 1}, command \in COMMANDS : CallHandler(command, from)

SpecHandlers == Init /\ [][NextHandlers]_vars

\* the words a user has on record
totalWordsOf(userId) ==
    IF userId \in DOMAIN users THEN users[userId].stats.totalWords ELSE 0

\* words of measured lengths recorded for a user who changes the difficulty
\* preference
NextDifficulty ==
    \/ StartInitialize
    \/ LoadDone(TwoWords)
    \/ \E difficulty \in validDifficulties : CallSetDifficulty(1, difficulty)
    \/ /\ totalWordsOf(1) < MaxTierWords
       /\ \E w \in MeasuredWords : CallAddToHistory(1, Some(w))

SpecDifficulty == Init /\ [][NextDifficulty]_vars

\* direct calls of the UserService operations
NextUser ==
    \/ StartInitialize
    \/ LoadDone(TwoWords)
    \/ \E userId \in SenderIds, difficulty \in DifficultyArgs :
          CallSetDifficulty(userId, difficulty)
    \/ \E userId \in SenderIds, word \in {Some(w) : w \in Range(words)} \cup {None} :
          /\ totalWordsOf(userId) < MaxUserWords
          /\ CallAddToHistory(userId, word)
    \/ \E userId \in SenderIds : CallGetHistory(userId, 10)
    \/ \E userId \in SenderIds : CallClearUserData(userId)
    \/ \E userId \in SenderIds : CallGetUserData(userId)

SpecUser == Init /\ [][NextUser]_vars

\* direct calls of the WordService operations and of the word picks of
\* UserService, from construction on
NextService ==
    \/ StartInitialize
    \/ \E file \in WordFiles : LoadDone(file)
    \/ ReloadWords
    \/ CallGetStats
    \/ CallResetCycle
    \/ /\ Len(cycle) < MaxCycleCalls
       /\ CallGetRandomWord
    \/ \E ws \in {<<>>, words} : CallGetWordOfTheDay(ws)
    \/ \E ws \in {<<>>, words} : CallUserGetRandomWord(ws)

SpecService == Init /\ [][NextService]_vars

\* the log of the words recorded for a user
recordedOf(userId) ==
    IF userId \in DOMAIN recorded THEN recorded[userId] ELSE <<>>

\* one user's history filled beyond its limit, and read
NextHistory ==
    \/ StartInitialize
    \/ LoadDone(NoneValid)
    \/ \E w \in Range(words) :
          /\ Len(recordedOf(1)) < MaxRecords
          /\ IF Len(recordedOf(1)) < Period THEN TRUE
             ELSE recordedOf(1)[Period].word = w.word
          /\ CallAddToHistory(1, Some(w))
    \/ \E limit \in {10, HISTORY_LIMIT, HISTORY_LIMIT + 1, 1000} : CallGetHistory(1, limit)

SpecHistory == Init /\ [][NextHistory]_vars

-----------------------------------------------------------------------------
\* The no-repeat cycle (SpecWords)

\* the word texts getRandomWord returned since the last resetCycle
cycleTexts == {cycle[i][1].word : i \in {j \in 1..Len(cycle) : cycle[j] # None}}

wordTexts == {words[i].word : i \in 1..Len(words)}

\* C1: getRandomWord never returns a word whose text is already in usedWords:
\* between two resets of the cycle (the automatic one, resetCycle, a reload)
\* no word text is returned twice, and every word returned was a new member
\* of usedWords, whoever asked.
C1_NoRepeatWithinCycle ==
    /\ \A i, j \in 1..Len(cycle) :
          (i < j /\ cycle[i] # None /\ cycle[j] # None)
              => cycle[i][1].word # cycle[j][1].word
    /\ usedWords = cycleTexts

\* a second cycle in which both users were served two different words
C1_Witness ==
    /\ totalRequests = 4
    /\ uniqueUsers = {1, 2}
    /\ Len(cycle) = 2
    /\ cycle[1] # None /\ cycle[2] # None
    /\ \E u, v \in DOMAIN users :
          /\ u # v
          /\ users[u].history # <<>> /\ users[v].history # <<>>
          /\ {users[u].history[1].word, users[v].history[1].word} = cycleTexts

\* C2: on a list of N >= 1 words, starting with usedWords empty, N calls of
\* getRandomWord return every word of the list exactly once, and the call
\* after them starts a new cycle: it returns a word and leaves usedWords
\* holding exactly that word.
C2_EveryWordOncePerCycle ==
    (cycleWords = words /\ Len(words) >= 1) =>
        /\ Len(cycle) <= Len(words)
        /\ \A i \in 1..Len(cycle) : cycle[i] # None
        /\ \A i, j \in 1..Len(cycle) : i < j => cycle[i] # cycle[j]
        /\ Len(cycle) = Len(words) =>
               {cycle[i][1] : i \in 1..Len(cycle)} = Range(words)
        /\ Len(cycle) = 1 => usedWords = {cycle[1][1].word}

\* C3: with a non-empty word list every call of getRandomWord returns a word.
C3_ReturnsWordWhenListNotEmpty ==
    Len(words) > 0 => \A i \in 1..Len(cycle) : cycle[i] # None

\* C4: usedWords is a subset of the word texts of the active word list.
C4_UsedWordsWithinList == usedWords \subseteq wordTexts

-----------------------------------------------------------------------------
\* The streak (SpecDays)

\* C5: a user with exactly one word on record, the first ever recorded for a
\* profile without lastUsed, has a streak of 1.
C5_FirstWordStartsStreak ==
    \A u \in DOMAIN users :
        users[u].stats.totalWords = 1 => users[u].stats.streak = 1

\* C6: recording a word for a user who has a lastUsed timestamp takes
\* daysDiff = floor((now - previous lastUsed) / 1 day) and leaves the streak
\* unchanged if daysDiff = 0, adds 1 to it if daysDiff = 1, and sets it to 1
\* if daysDiff >= 2.
C6_StreakFollowsPreviousLastUsed ==
    [][\A u \in DOMAIN users :
          (/\ u \in DOMAIN users'
           /\ users'[u].stats.totalWords = users[u].stats.totalWords + 1
           /\ users[u].stats.lastUsed # None)
          => LET daysDiff == (now - users[u].stats.lastUsed[1]) \div MS_PER_DAY
                 streak == users[u].stats.streak
             IN users'[u].stats.streak =
                    IF daysDiff = 0 THEN streak
                    ELSE IF daysDiff = 1 THEN streak + 1
                    ELSE 1]_vars

-----------------------------------------------------------------------------
\* The history (SpecHistory)

\* the newest HISTORY_LIMIT words recorded for a user, newest first
newestRecorded(userId) ==
    SubSeq(recordedOf(userId), 1, Min(Len(recordedOf(userId)), HISTORY_LIMIT))

\* C7: no history holds more than 50 entries; a user's history is the
\* min(k, 50) most recent of the k words recorded for the user, newest first,
\* and getHistory with a limit of 50 or more returns exactly these.
C7_HistoryNewestFifty ==
    /\ \A u \in DOMAIN users :
          /\ Len(users[u].history) <= 50
          /\ users[u].history = newestRecorded(u)
    /\ (ret.op = "getHistory" /\ isValidUserId(ret.userId) /\ ret.arg[1] >= 50)
       => /\ ret.result[1] = newestRecorded(ret.userId)
          /\ Len(ret.result[1]) = Min(Len(recordedOf(ret.userId)), 50)

\* getHistory(1, 1000) returns 50 entries after more than 50 words were recorded
C7_Witness ==
    /\ Len(recordedOf(1)) > 50
    /\ ret.op = "getHistory"
    /\ ret.userId = 1
    /\ ret.arg = Some(1000)
    /\ Len(ret.result[1]) = 50
    /\ ret.result[1][1] = recordedOf(1)[1]
    /\ ret.result[1][1].word # ret.result[1][2].word

-----------------------------------------------------------------------------
\* The difficulty (SpecUser, SpecDispatch)

\* C8: setDifficulty(userId, value) for a user ID returns true and sets the
\* profile's difficulty to value when value is easy, medium or hard; for any
\* other value it returns false and this.users is what it was before the
\* call: no difficulty changed, no profile created.
C8_SetDifficultyExactlyValid ==
    (ret.op = "setDifficulty" /\ isValidUserId(ret.userId))
    => IF ret.arg[1] \in {"easy", "medium", "hard"}
       THEN /\ ret.result = Some(TRUE)
            /\ users[ret.userId].difficulty = ret.arg[1]
       ELSE /\ ret.result = Some(FALSE)
            /\ users = ret.usersBefore

\* setDifficulty(1, "extreme") returned false on a profile set to hard before
C8_Witness ==
    /\ ret.op = "setDifficulty"
    /\ ret.userId = 1
    /\ ret.arg = Some("extreme")
    /\ ret.result = Some(FALSE)
    /\ 1 \in DOMAIN ret.usersBefore
    /\ ret.usersBefore[1].difficulty = "hard"
    /\ users[1].difficulty = "hard"
    /\ 2 \notin DOMAIN users

\* C10: after a /difficulty message of a user whose argument contains easy,
\* medium or hard in any case, the confirmation was sent and the sender's
\* profile has the requested difficulty.
C10_DifficultyArgumentSets ==
    (/\ lastMessage # None
     /\ isValidUserId(lastMessage[1].from)
     /\ StartsWith(lastMessage[1].text, "/difficulty ")
     /\ parseDifficulty(lastMessage[1].text) # None)
    => /\ lastSent = <<[text |-> "DIFFICULTY_CHANGED"]>>
       /\ lastMessage[1].from \in DOMAIN users
       /\ users[lastMessage[1].from].difficulty
              = parseDifficulty(lastMessage[1].text)[1]

-----------------------------------------------------------------------------
\* The word of the day (SpecDays)

\* C9: the words getWordOfTheDay returned on one calendar date are one word,
\* whoever asked and whatever /word, /random, /share or /history came in
\* between; the word of the day changes only in a step that starts on a
\* date other than the one it was drawn on, and is then the word of today.
C9_OneWordPerDate ==
    /\ [](\A p, q \in wotdReturns : p.date = q.date => p.word = q.word)
    /\ [][wordOfTheDay' # wordOfTheDay
          => /\ wordOfTheDayDate # Some(toDateString(now))
             /\ wordOfTheDayDate' = Some(toDateString(now))]_vars

\* two users got the same word on one date and another word on another date
C9_Witness ==
    \E p, q, r \in wotdReturns :
        /\ p.date = q.date
        /\ p.userId # q.userId
        /\ r.date # p.date
        /\ r.word # p.word
        /\ wordOfTheDay = Some(r.word)


-----------------------------------------------------------------------------
\* Dispatch (SpecDispatch)

\* the text up to its first space
RECURSIVE LeadingToken(_)
LeadingToken(text) ==
    IF text = "" \/ SubSeq(text, 1, 1) = " " THEN ""
    ELSE SubSeq(text, 1, 1) \o LeadingToken(SubSeq(text, 2, Len(text)))

\* C11: after a text message of a user whose leading token is none of the
\* nine commands, received while the bot is not shutting down, the
\* unknown-command reply was sent for it.
C11_UnknownCommandReply ==
    (/\ lastMessage # None
     /\ ~isShuttingDown
     /\ isValidUserId(lastMessage[1].from)
     /\ lastMessage[1].text # ""
     /\ LeadingToken(lastMessage[1].text) \notin COMMANDS)
    => lastSent = <<[text |-> "UNKNOWN_COMMAND"]>>

\* C12: when a send started by a handler (a command's or the unknown-command
\* handler's) has thrown, the generic failure reply to that chat is on its way.
C12_HandlerErrorGetsFailureReply ==
    (lastError # None /\ lastError[1].origin \in {"command", "message"})
    => [chat |-> lastError[1].chat, text |-> "errorMessage", origin |-> "error"]
           \in pending

-----------------------------------------------------------------------------
\* Loading the words (SpecWords)

\* C13: when the read of words.json at start-up fails, the fallback words
\* are active, WordService.initialize succeeds, the service is ready and
\* BotManager.initialize succeeds.
C13_UnreadableSourceStillStarts ==
    [][(loadPc = "init" /\ LoadDone(Unreadable))
       => /\ words' = FALLBACK_WORDS
          /\ wsInitialized'
          /\ isReady'
          /\ phase' = "running"]_vars

\* C14: when words.json parses and no entry of it is valid, loadWords
\* returns true (at start-up the service is initialized) and this.words is
\* the three fallback words.
C14_NoValidEntryUsesFallback ==
    [][\A file \in {NotAnArray, NoneValid} :
          LoadDone(file)
          => /\ loadWordsResult(file).success
             /\ words' = FALLBACK_WORDS
             /\ Len(words') = 3
             /\ loadPc = "init" => wsInitialized' /\ phase' = "running"]_vars

\* the bot started on the fallback words and /word has served one of them
C14_Witness ==
    /\ phase = "running"
    /\ wsInitialized
    /\ loadAttempts = 1
    /\ loadPc = "idle"
    /\ words = FALLBACK_WORDS
    /\ Len(cycle) = 1
    /\ cycle[1] # None
    /\ cycle[1][1] \in Range(FALLBACK_WORDS)

-----------------------------------------------------------------------------
\* Direct calls of the services (SpecService)

\* C15: getStats on an empty word list reports a cycleProgress of 0.
C15_EmptyListProgressZero ==
    (ret.op = "getStats" /\ ret.result[1].totalWords = 0)
    => ret.result[1].cycleProgress = 0

\* the words getRandomWord can return in this state
selectable == {o.result : o \in getRandomWordOutcomes(words, usedWords, wsInitialized)}

C19_EmptyCatalogFails ==
    (/\ ret.op \in {"getWordOfTheDay", "UserService.getRandomWord"}
     /\ ret.arg = Some(<<>>))
    => ret.throws

-----------------------------------------------------------------------------
\* Handlers and reloads in time (SpecDispatch, SpecWords)

\* C17: the handler of a message starts only when no send of an earlier
\* handler is in flight.
C17_OneMessageAtATime ==
    [][totalMessages' # totalMessages => pending = {}]_vars

\* C18: while reloadWords waits for the file no /word is served, and when
\* it completes usedWords is empty.
C18_ReloadAtomic ==
    [][loadPc = "reload"
       => /\ totalRequests' = totalRequests
          /\ loadPc' = "idle" => usedWords' = {}]_vars

\* C20: every history is the log of the entries as they were recorded, and a
\* completed load, a reloadWords and a resetCycle leave every history as it is.
C20_HistoryKeepsItsEntries ==
    /\ [](\A u \in DOMAIN users : users[u].history = newestRecorded(u))
    /\ [][((\E file \in WordFiles : LoadDone(file)) \/ ResetCycle \/ ReloadWords)
          => \A u \in DOMAIN users :
                /\ u \in DOMAIN users'
                /\ users'[u].history = users[u].history]_vars

\* after a reload a user's history holds a word that is no longer in the list
C20_Witness ==
    /\ loadAttempts = 2
    /\ loadPc = "idle"
    /\ \E u \in DOMAIN users :
          /\ users[u].history # <<>>
          /\ users[u].history = recordedOf(u)
          /\ \E i \in DOMAIN users[u].history :
                users[u].history[i].word \notin wordTexts

-----------------------------------------------------------------------------
\* The commands outside the cycle (SpecDays)

\* the history of a user in this.users us (empty without a profile)
historyIn(us, userId) == IF userId \in DOMAIN us THEN us[userId].history ELSE <<>>

\* C21: /random, /share and /wordoftheday leave usedWords and the word list,
\* and so the used and remaining counts of getStats, as they are; /share
\* leaves this.users as it is; /random and /wordoftheday put one entry for a
\* word of the list in front of the sender's history and leave the other
\* users alone.
C21_OutsideTheCycle ==
    [][\A from \in {1, 2}, text \in {"/random", "/share", "/wordoftheday"} :
          OnMessage(from, text)
          => /\ usedWords' = usedWords
             /\ words' = words
             /\ getStats(words', usedWords', 0, {}).usedWords
                    = getStats(words, usedWords, 0, {}).usedWords
             /\ getStats(words', usedWords', 0, {}).remainingWords
                    = getStats(words, usedWords, 0, {}).remainingWords
             /\ IF text = "/share"
                THEN users' = users
                ELSE LET old == historyIn(users, from)
                         new == historyIn(users', from)
                     IN /\ Len(new) = Min(Len(old) + 1, 50)
                        /\ new[1].word \in {w.word : w \in Range(words)}
                        /\ \A i \in 2..Len(new) : new[i] = old[i - 1]
                        /\ \A u \in DOMAIN users \ {from} :
                              u \in DOMAIN users' /\ users'[u] = users[u]]_vars

\* after a /word, two /random of the same user returned one word twice while
\* one word stayed in use
C21_Witness ==
    /\ lastMessage = Some([from |-> 1, text |-> "/random"])
    /\ totalRequests = 3
    /\ Cardinality(usedWords) = 1
    /\ 1 \in DOMAIN users
    /\ Len(users[1].history) = 3
    /\ users[1].history[1].word = users[1].history[2].word
    /\ lastSent # <<>>
    /\ lastSent[1].text = "randomMessage"

-----------------------------------------------------------------------------
\* The profiles (SpecUser)

\* C22: getUserData(userId) for an ID without a profile adds a profile with
\* the defaults and returns it; for an ID with a profile it returns that
\* profile and changes nothing; after clearUserData the ID has no profile.
C22_GetOrCreateProfile ==
    /\ ret.op = "getUserData"
       => IF ret.userId \in DOMAIN ret.usersBefore
          THEN /\ users = ret.usersBefore
               /\ ret.result = Some(ret.usersBefore[ret.userId])
          ELSE /\ ret.result = Some([id |-> ret.userId,
                                     history |-> <<>>,
                                     difficulty |-> "medium",
                                     stats |-> [totalWords |-> 0, streak |-> 0,
                                                lastUsed |-> None]])
               /\ DOMAIN users = DOMAIN ret.usersBefore \cup {ret.userId}
               /\ users[ret.userId] = ret.result[1]
               /\ \A u \in DOMAIN ret.usersBefore : users[u] = ret.usersBefore[u]
    /\ ret.op = "clearUserData" => ret.userId \notin DOMAIN users

\* getUserData(1) returned the profile that holds two words and the
\* difficulty hard
C22_Witness ==
    /\ ret.op = "getUserData"
    /\ ret.userId = 1
    /\ 1 \in DOMAIN ret.usersBefore
    /\ users = ret.usersBefore
    /\ ret.result[1].difficulty = "hard"
    /\ Len(ret.result[1].history) = 2
    /\ ret.result[1].stats.totalWords = 2

-----------------------------------------------------------------------------
\* The handlers on a service that is not ready (SpecHandlers)

\* C23: handleWord for a user on a word service that is not initialized or
\* has no words sends the no-words-available reply and nothing else, and
\* leaves usedWords, the selections of the cycle, this.users and the
\* histories as they are.
C23_NotReadyNoWord ==
    [][\A from \in {1} :
          (CallHandler("/word", from) /\ ~(wsInitialized /\ Len(words) > 0))
          => /\ lastSent' = <<[text |-> "NO_WORDS_AVAILABLE"]>>
             /\ pending' = pending \cup {[chat |-> from,
                                          text |-> "NO_WORDS_AVAILABLE",
                                          origin |-> "command"]}
             /\ usedWords' = usedWords
             /\ cycle' = cycle
             /\ users' = users
             /\ recorded' = recorded
             /\ lastError' = lastError]_vars

\* /word was answered with the no-words-available reply on a service that
\* holds the fallback words without being initialized
C23_Witness ==
    /\ lastMessage = Some([from |-> 1, text |-> "/word"])
    /\ ~wsInitialized
    /\ words = FALLBACK_WORDS
    /\ lastSent = <<[text |-> "NO_WORDS_AVAILABLE"]>>
    /\ usedWords = {}
    /\ users = <<>>
    /\ totalRequests = 1

-----------------------------------------------------------------------------
\* The sender IDs and the request statistics (SpecDispatch)

\* C24: a message whose sender ID is not a positive integer is skipped
\* whatever its text: no reply is sent, totalRequests and uniqueUsers are
\* unchanged, this.users is unchanged and the bot keeps running.
C24_InvalidSenderSkipped ==
    [][\A text \in Texts :
          OnMessage(0, text)
          => /\ lastSent' = <<>>
             /\ pending' = pending
             /\ totalRequests' = totalRequests
             /\ uniqueUsers' = uniqueUsers
             /\ users' = users
             /\ recorded' = recorded
             /\ phase' = phase
             /\ lastError' = lastError]_vars

\* /word of sender 0 was skipped after a request of user 1
C24_Witness ==
    /\ lastMessage = Some([from |-> 0, text |-> "/word"])
    /\ lastSent = <<>>
    /\ totalRequests = 1
    /\ uniqueUsers = {1}
    /\ 0 \notin DOMAIN users
    /\ phase = "running"

\* C25: totalRequests never decreases and uniqueUsers never loses a member in
\* any step; a command, or a text that is no command, from a valid user adds
\* exactly 1 to totalRequests and adds the sender to uniqueUsers; resetCycle
\* and reloadWords leave both unchanged.
C25_RequestStatsOnlyGrow ==
    [][/\ totalRequests' >= totalRequests
       /\ uniqueUsers \subseteq uniqueUsers'
       /\ \A from \in {1, 2}, text \in COMMANDS \cup {"hello"} :
             OnMessage(from, text)
             => /\ totalRequests' = totalRequests + 1
                /\ uniqueUsers' = uniqueUsers \cup {from}
       /\ (ResetCycle \/ ReloadWords)
          => /\ totalRequests' = totalRequests
             /\ uniqueUsers' = uniqueUsers]_vars

\* two requests of user 1 are counted, and the count has survived a reload
C25_Witness ==
    /\ totalRequests = 2
    /\ uniqueUsers = {1}
    /\ loadAttempts = 2
    /\ usedWords = {}
    /\ 1 \in DOMAIN users

\* C26: a message that runs handleStart, handleHelp, handleStats or
\* handleUnknownCommand, from any sender, leaves the word list, usedWords, the
\* word of the day with its date, and this.users as they were.
C26_NoCatalogOrProfileEffects ==
    [][\A from \in SenderIds, text \in {"/start", "/help", "/stats", "hello"} :
          OnMessage(from, text)
          => /\ words' = words
             /\ usedWords' = usedWords
             /\ wsInitialized' = wsInitialized
             /\ wordOfTheDay' = wordOfTheDay
             /\ wordOfTheDayDate' = wordOfTheDayDate
             /\ users' = users
             /\ recorded' = recorded]_vars

\* /stats of user 2 was answered after a /word of user 1: user 1 has a
\* profile, user 2 has none
C26_Witness ==
    /\ lastMessage = Some([from |-> 2, text |-> "/stats"])
    /\ Len(lastSent) = 1
    /\ lastSent[1].text = "statsMessage"
    /\ lastSent[1].stats.usedWords = 1
    /\ usedWords # {}
    /\ DOMAIN users = {1}
    /\ totalRequests = 2

-----------------------------------------------------------------------------
\* The words each user received (SpecInterleave)

\* the word texts among the entries i..Len of a user's record (newest first)
receivedBefore(userId, i) ==
    {recorded[userId][k].word : k \in i..Len(recorded[userId])}

\* C27: /word delivers to a user a word that the same user has received
\* before only when that user had by then received every word of the list,
\* however the requests of the users interleave.
C27_NoRepeatPerUser ==
    \A u \in DOMAIN recorded :
        \A i \in 1..Len(recorded[u]) :
            recorded[u][i].word \in receivedBefore(u, i + 1)
                => wordTexts \subseteq receivedBefore(u, i + 1)

-----------------------------------------------------------------------------
\* The validation of words.json (SpecValidate)

\* a string with a character that is no space
nonBlank(str) == \E i \in 1..Len(str) : SubSeq(str, i, i) # " "

\* an entry whose word, definition and emoji are non-empty after trimming
wellFormed(entry) ==
    nonBlank(entry.word) /\ nonBlank(entry.definition) /\ nonBlank(entry.emoji)

\* C28: validateWordsArray of an array returns as validWords exactly the
\* entries whose word, definition and emoji are non-empty after trimming, in
\* their order, and as errors the indices of the other entries, one each, in
\* order; loading an array with invalid entries does not fail and makes
\* this.words the valid entries (the fallback words when there is none).
C28_ValidateKeepsValidEntries ==
    /\ []((ret.op = "validateWordsArray" /\ ret.arg[1].isArray)
          => LET entries == ret.arg[1].entries
                 validation == ret.result[1]
             IN /\ validation.validWords = SelectSeq(entries, wellFormed)
                /\ {validation.errors[k] : k \in 1..Len(validation.errors)}
                       = {i - 1 : i \in {j \in 1..Len(entries) : ~wellFormed(entries[j])}}
                /\ \A k \in 1..(Len(validation.errors) - 1) :
                       validation.errors[k] < validation.errors[k + 1]
                /\ validation.valid = (SelectSeq(entries, wellFormed) # <<>>))
    /\ [][\A file \in ValidateInputs :
             (file.isArray /\ LoadDone(file))
             => /\ words' = IF SelectSeq(file.entries, wellFormed) # <<>>
                            THEN SelectSeq(file.entries, wellFormed)
                            ELSE FALLBACK_WORDS
                /\ loadPc = "init" => (wsInitialized' /\ phase' = "running")]_vars

\* an invalid entry between two valid ones: both are kept, index 1 is
\* reported, and the load of the same array succeeded with both
C28_Witness ==
    /\ ret.op = "validateWordsArray"
    /\ ret.arg[1].entries = <<Petrichor, BlankWord, Serendipity>>
    /\ ret.result[1].validWords = <<Petrichor, Serendipity>>
    /\ ret.result[1].errors = <<1>>
    /\ ret.result[1].valid
    /\ words = <<Petrichor, Serendipity>>
    /\ wsInitialized

-----------------------------------------------------------------------------
\* The statistics over reloads (SpecWords)

\* C29: in every state of a ready word service getStats reports
\* 0 <= usedWords <= totalWords, remainingWords = totalWords - usedWords >= 0
\* and cycleProgress = round(100 * usedWords / totalWords) within 0..100.
C29_StatsWithinBounds ==
    isReady =>
        LET stats == getStats(words, usedWords, totalRequests, uniqueUsers)
        IN /\ 0 <= stats.usedWords
           /\ stats.usedWords <= stats.totalWords
           /\ stats.remainingWords = stats.totalWords - stats.usedWords
           /\ stats.remainingWords >= 0
           /\ stats.cycleProgress = Round(100 * stats.usedWords, stats.totalWords)
           /\ stats.cycleProgress \in 0..100

-----------------------------------------------------------------------------
\* One reply per message (SpecDispatch)

\* C30: after a text message of a valid user, received while the bot is
\* running and not shutting down, exactly one reply was sent for it: the
\* unknown-command reply when its leading token is none of the nine commands,
\* the reply of a command otherwise.
C30_ExactlyOneReply ==
    (/\ lastMessage # None
     /\ ~isShuttingDown
     /\ isValidUserId(lastMessage[1].from)
     /\ lastMessage[1].text # "")
    => /\ Len(lastSent) = 1
       /\ (lastSent[1].text = "UNKNOWN_COMMAND")
              = (LeadingToken(lastMessage[1].text) \notin COMMANDS)

-----------------------------------------------------------------------------
\* The handlers and their sends (SpecDispatch)

\* C31: the end of a send, successful or failed, changes none of the word
\* list, usedWords, the profiles, the word of the day and the request
\* statistics: every handler has made its changes when it starts its send.
\* The progress and the streak of a /word reply are those of the state the
\* handler leaves when it starts the send.
C31_MutationsBeforeSend ==
    [][/\ \A p \in pending, ok \in BOOLEAN :
             SendDone(p, ok)
             => /\ words' = words
                /\ usedWords' = usedWords
                /\ users' = users
                /\ wordOfTheDay' = wordOfTheDay
                /\ wordOfTheDayDate' = wordOfTheDayDate
                /\ totalRequests' = totalRequests
                /\ uniqueUsers' = uniqueUsers
       /\ \A from \in {1, 2} :
             (OnMessage(from, "/word") /\ lastSent' # <<>>)
             => IF lastSent'[1].text = "wordMessage"
                THEN /\ lastSent'[1].usedWords = Cardinality(usedWords')
                     /\ lastSent'[1].totalWords = Len(words')
                     /\ lastSent'[1].cycleProgress
                            = Round(100 * Cardinality(usedWords'), Len(words'))
                     /\ lastSent'[1].word.word \in usedWords'
                     /\ lastSent'[1].streak = users'[from].stats.streak
                ELSE usedWords' = usedWords /\ users' = users]_vars

\* the send of the second /word reply has failed: the state is the one the
\* handler left, and the reply showed it
C31_Witness ==
    /\ lastError = Some([chat |-> 1, origin |-> "command"])
    /\ Len(lastSent) = 1
    /\ lastSent[1].text = "wordMessage"
    /\ lastSent[1].usedWords = 2
    /\ Cardinality(usedWords) = 2
    /\ users[1].stats.totalWords = 2
    /\ totalRequests = 2

\* C32: a failed send of a /word reply rolls nothing back: usedWords and the
\* profiles are as the handler left them, and the generic error reply to the
\* chat is on its way. Every word selected in the cycle stays in usedWords,
\* and a /word that finds the cycle unfinished records one more word for its
\* sender and returns a word that was not in usedWords.
C32_FailedSendKeepsSelection ==
    /\ [](cycleTexts \subseteq usedWords)
    /\ [][/\ \A p \in pending :
                (SendDone(p, FALSE) /\ p.text = "wordMessage")
                => /\ usedWords' = usedWords
                   /\ users' = users
                   /\ recorded' = recorded
                   /\ [chat |-> p.chat, text |-> "errorMessage", origin |-> "error"]
                          \in pending'
          /\ \A from \in {1, 2} :
                (/\ OnMessage(from, "/word")
                 /\ lastSent' # <<>>
                 /\ Cardinality(usedWords) < Len(words))
                => /\ lastSent'[1].text = "wordMessage"
                   /\ lastSent'[1].word.word \notin usedWords
                   /\ lastSent'[1].word.word \in usedWords'
                   /\ users'[from].history[1].word = lastSent'[1].word.word
                   /\ users'[from].stats.totalWords = totalWordsOf(from) + 1]_vars

\* the send of user 1's first /word reply failed, the error reply is on its
\* way, and the user's second /word returned the other word
C32_Witness ==
    /\ lastError = Some([chat |-> 1, origin |-> "command"])
    /\ [chat |-> 1, text |-> "errorMessage", origin |-> "error"] \in pending
    /\ [chat |-> 1, text |-> "wordMessage", origin |-> "command"] \in pending
    /\ lastMessage = Some([from |-> 1, text |-> "/word"])
    /\ totalRequests = 2
    /\ Len(cycle) = 2
    /\ users[1].stats.totalWords = 2
    /\ users[1].history[1].word # users[1].history[2].word
    /\ usedWords = {users[1].history[1].word, users[1].history[2].word}

-----------------------------------------------------------------------------
\* The word list after a load (SpecWords)

\* C33: once a load has completed the word list is never empty; every load
\* that completes, the first or a reload, of a readable or an unreadable
\* file, leaves as word list the valid entries of the file when there is one,
\* and the 3 fallback words otherwise.
C33_LoadedListNotEmpty ==
    /\ []((loadAttempts > 0 /\ phase # "loading") => Len(words) > 0)
    /\ Len(FALLBACK_WORDS) = 3
    /\ [][\A file \in WordFiles :
             LoadDone(file)
             => /\ Len(words') > 0
                /\ words' = IF file.ok /\ file.isArray
                               /\ SelectSeq(file.entries, wellFormed) # <<>>
                            THEN SelectSeq(file.entries, wellFormed)
                            ELSE FALLBACK_WORDS]_vars

\* a reload that could not read the file has replaced a list of two words
\* by the fallback words
C33_Witness ==
    /\ loadAttempts = 2
    /\ loadPc = "idle"
    /\ wsInitialized
    /\ words = FALLBACK_WORDS
    /\ Len(words) = 3
    /\ cycleWords = TwoWords.entries

-----------------------------------------------------------------------------
\* The word of the day over reloads (SpecReloadDay)

\* C34: the word a /wordoftheday reply carries is an element of the word
\* list in use when the reply is made, also when the list was reloaded
\* earlier on the same date.
C34_WordOfTheDayInList ==
    [][\A from \in {1, 2} :
          (OnMessage(from, "/wordoftheday") /\ lastSent' # <<>>)
          => (lastSent'[1].text = "wordOfTheDayMessage"
              => lastSent'[1].word \in Range(words'))]_vars

-----------------------------------------------------------------------------
\* The history and the count of words (SpecHistory)

\* C35: in every profile the history holds min(stats.totalWords, 50)
\* entries; addToHistory of a word for a user adds 1 to totalWords and puts
\* one entry for the word at the front of the history, before the entries it
\* held, of which the oldest is dropped once 50 are held.
C35_HistoryLengthFollowsTotal ==
    /\ [](\A u \in DOMAIN users :
             Len(users[u].history) = Min(users[u].stats.totalWords, 50))
    /\ [][\A w \in Range(FALLBACK_WORDS) :
             CallAddToHistory(1, Some(w))
             => LET before == historyIn(users, 1)
                    after == users'[1].history
                IN /\ users'[1].stats.totalWords = totalWordsOf(1) + 1
                   /\ Len(after) = Min(Len(before) + 1, 50)
                   /\ after[1].word = w.word
                   /\ \A k \in 2..Len(after) : after[k] = before[k - 1]]_vars

\* the 52nd word was recorded for user 1: the history holds 50 entries
C35_Witness ==
    /\ ret.op = "addToHistory"
    /\ ret.userId = 1
    /\ users[1].stats.totalWords = 52
    /\ Len(users[1].history) = 50
    /\ Len(ret.usersBefore[1].history) = 50
    /\ users[1].history[2] = ret.usersBefore[1].history[1]

-----------------------------------------------------------------------------
\* The shutdown (SpecDispatch)

\* C36: once stop() has set isShuttingDown it stays true, polling is not
\* started again, and a message that arrives, of a command or of any other
\* text, gets no reply and leaves the words, the profiles, the word of the
\* day and the request statistics as they are.
C36_NoProcessingAfterStop ==
    [][isShuttingDown
       => /\ isShuttingDown'
          /\ polling' => polling
          /\ \A from \in SenderIds, text \in Texts :
                OnMessage(from, text)
                => /\ lastSent' = <<>>
                   /\ pending' = pending
                   /\ words' = words
                   /\ usedWords' = usedWords
                   /\ users' = users
                   /\ wordOfTheDay' = wordOfTheDay
                   /\ wordOfTheDayDate' = wordOfTheDayDate
                   /\ totalRequests' = totalRequests
                   /\ uniqueUsers' = uniqueUsers
                   /\ totalMessages' = totalMessages]_vars

-----------------------------------------------------------------------------
\* The life of the bot manager (SpecLifecycle)

\* BotManager.isInitialized
isInitialized == phase = "running"

\* C37: isInitialized is true only after a load during initialize reported
\* success: then the word service is initialized with a word list that is
\* not empty, and the bot polls unless the shutdown has begun; it stays so.
\* start() returns true exactly when it is called with isInitialized true.
C37_InitializedMeansReady ==
    /\ [](isInitialized
            => /\ loadAttempts >= 1
               /\ wsInitialized
               /\ Len(words) > 0
               /\ polling \/ isShuttingDown)
    /\ [](~isInitialized => ~polling)
    /\ [](ret.op = "start"
            => /\ ret.result[1] = (ret.arg[1] = "running")
               /\ ret.result[1] => (isInitialized /\ wsInitialized /\ Len(words) > 0))
    /\ [][isInitialized => isInitialized']_vars

\* start() was called after initialize failed on an unreadable words.json:
\* the fallback words are loaded, and start() returned false
C37_Witness ==
    /\ ret.op = "start"
    /\ ret.result = Some(FALSE)
    /\ phase = "failed"
    /\ loadAttempts = 1
    /\ words = FALLBACK_WORDS
    /\ ~wsInitialized

-----------------------------------------------------------------------------
\* The difficulty of a recorded word (SpecDifficulty)

\* C38: the difficulty of the entry addToHistory makes of a word is easy
\* when the word has at most 6 characters and its definition at most 100,
\* otherwise medium when they have at most 10 and 150, otherwise hard,
\* whatever the user's difficulty preference; setting the preference changes
\* no entry.
C38_TierFromLengthsOnly ==
    /\ []((ret.op = "addToHistory" /\ isValidUserId(ret.userId) /\ ret.arg # None)
          => LET L == Len(ret.arg[1].word)
                 D == Len(ret.arg[1].definition)
             IN users[ret.userId].history[1].difficulty
                    = IF L <= 6 /\ D <= 100 THEN "easy"
                      ELSE IF L <= 10 /\ D <= 150 THEN "medium"
                      ELSE "hard")
    /\ [][\A difficulty \in validDifficulties :
             CallSetDifficulty(1, difficulty)
             => historyIn(users', 1) = historyIn(users, 1)]_vars

\* a word of 6 characters with a definition of 101 was recorded as medium
\* for a user whose preference is hard
C38_Witness ==
    /\ ret.op = "addToHistory"
    /\ Len(ret.arg[1].word) = 6
    /\ Len(ret.arg[1].definition) = 101
    /\ 1 \in DOMAIN ret.usersBefore
    /\ ret.usersBefore[1].difficulty = "hard"
    /\ users[1].difficulty = "hard"
    /\ users[1].history[1].difficulty = "medium"

-----------------------------------------------------------------------------
\* The uptime (SpecUptime)

\* C39: for an elapsed time of d whole days, h remaining whole hours and m
\* remaining whole minutes, WordService.getUptime returns "Dd Hh Mm" when
\* d > 0, "Hh Mm" when d = 0 and h > 0, and "Mm" otherwise, with h in 0..23
\* and m in 0..59; BotManager.getUptime with the same start time returns the
\* same string.
C39_UptimeFormat ==
    ret.op = "getUptime"
    => LET elapsed == ret.arg[1].now - ret.arg[1].startTime
           d == elapsed \div (24 * 3600000)
           h == (elapsed \div 3600000) % 24
           m == (elapsed \div 60000) % 60
           expected == IF d > 0
                       THEN ToString(d) \o "d " \o ToString(h) \o "h " \o ToString(m) \o "m"
                       ELSE IF h > 0 THEN ToString(h) \o "h " \o ToString(m) \o "m"
                       ELSE ToString(m) \o "m"
       IN /\ elapsed >= 0
          /\ ret.result[1].wordService = expected
          /\ ret.arg[1].bmStartTime = Some(ret.arg[1].startTime)
                 => ret.result[1].botManager = ret.result[1].wordService

\* one day, no hour and 59 minutes: both return "1d 0h 59m"
C39_Witness ==
    /\ ret.op = "getUptime"
    /\ ret.arg[1].now - ret.arg[1].startTime = 24 * 3600000 + 59 * 60000 + 59999
    /\ ret.arg[1].bmStartTime = Some(ret.arg[1].startTime)
    /\ ret.result[1].wordService = "1d 0h 59m"
    /\ ret.result[1].botManager = "1d 0h 59m"

=============================================================================
